---- MODULE Spec2Model ----
(***************************************************************************)
(* TimeTracer (src/lib.rs): an in-process task timer with an append-only   *)
(* save file and an id-cache file.  Files are modelled as character        *)
(* sequences, the clock as a counter of ticks that the environment moves.  *)
(***************************************************************************)
EXTENDS Integers, Sequences, FiniteSets, TLC

\* ------------------------------------------------------------------ bounds
\* Spec (ids, the two files and restarts; the clock stands still):
\* new_task calls explored per process lifetime
MaxCalls == 2
\* process restarts explored
MaxBoots == 1
\* end_task calls that return a duration, between two removals of the save file
MaxLines == 1

\* SpecRun (one process lifetime with failing writes; the clock stands still):
RunCalls == 2
RunLines == 2

\* SpecClock (one process lifetime under a moving clock):
ClockCalls == 2
ClockLines == 1
\* SpecMono (one process lifetime under a clock that only moves forward):
MonoCalls == 2
MonoLines == 2

\* largest clock reading, in ticks
MaxTime == 1
\* clock ticks per second (SystemTime is finer than the seconds it is saved in)
TicksPerSec == 2

\* an id no new_task call of the explored runs hands out
UnknownId == 1000

\* ------------------------------------------------------- program constants
\* current_id is a u32.  Its range ends at 4294967295, beyond the integers
\* TLC computes with: the explored runs keep every id below 1000, so the
\* increment of new_task never reaches the end of the range.

\* ids a previous run can have left in the cache file ("9\n", "99\n")
StartIds == {9, 99}

\* task names used as inputs: text without ',' and without line breaks
Names == {<<"a">>, <<"b">>}

Times == 0..MaxTime

\* a file that does not exist
Absent == <<"absent">>

NL == "\n"

\* -------------------------------------------------------------- text
Digits == <<"0", "1", "2", "3", "4", "5", "6", "7", "8", "9">>

IsDigit(c) == \E i \in 1..10 : Digits[i] = c

DigitVal(c) == (CHOOSE i \in 1..10 : Digits[i] = c) - 1

\* Display of an unsigned integer: "{}"
RECURSIVE DecStr(_)
DecStr(n) == IF n < 10 THEN <<Digits[n + 1]>>
             ELSE Append(DecStr(n \div 10), Digits[(n % 10) + 1])

IsSpace(c) == c = NL \/ c = " "

\* str::trim
RECURSIVE TrimStart(_)
TrimStart(s) == IF s # <<>> /\ IsSpace(Head(s)) THEN TrimStart(Tail(s)) ELSE s

RECURSIVE TrimEnd(_)
TrimEnd(s) == IF s # <<>> /\ IsSpace(s[Len(s)])
              THEN TrimEnd(SubSeq(s, 1, Len(s) - 1)) ELSE s

Trim(s) == TrimEnd(TrimStart(s))

RECURSIVE DigitsValue(_)
DigitsValue(s) == IF s = <<>> THEN 0
                  ELSE 10 * DigitsValue(SubSeq(s, 1, Len(s) - 1)) + DigitVal(s[Len(s)])

\* str::parse::<u32>: -1 stands for Err.  (The texts of the explored runs
\* have at most three digits; the overflow error of parse is out of reach.)
ParseU32(s) == IF s = <<>> \/ \E i \in 1..Len(s) : ~IsDigit(s[i]) THEN -1
               ELSE DigitsValue(s)

\* Duration::as_secs of a time since the epoch
AsSecs(t) == t \div TicksPerSec

\* "{},{},{},{}\n" of save_task_to_file
RecordLine(task) == DecStr(task.id) \o <<",">> \o task.name \o <<",">>
                    \o DecStr(AsSecs(task.start_time)) \o <<",">>
                    \o DecStr(AsSecs(task.end_time)) \o <<NL>>

\* File::options().append(true).create(true), then writeln!
AppendTruncates(file, text) == text

AppendToFile(file, text) == IF file = Absent THEN text ELSE file \o text

\* File::options().write(true).create(true), then writeln!: the text is
\* written from offset 0 and the file is not truncated
OverwriteFile(file, text) ==
    IF file = Absent \/ Len(file) <= Len(text) THEN text
    ELSE text \o SubSeq(file, Len(text) + 1, Len(file))

\* the lines of a text, as str::lines splits them
RECURSIVE Lines(_)
Lines(s) ==
    IF s = <<>> THEN <<>>
    ELSE IF \E i \in 1..Len(s) : s[i] = NL
         THEN LET k == CHOOSE i \in 1..Len(s) :
                           s[i] = NL /\ \A j \in 1..(i - 1) : s[j] # NL
              IN  <<SubSeq(s, 1, k - 1)>> \o Lines(SubSeq(s, k + 1, Len(s)))
         ELSE <<s>>

\* the comma-separated fields of a line
RECURSIVE Fields(_)
Fields(s) ==
    IF \E i \in 1..Len(s) : s[i] = ","
    THEN LET k == CHOOSE i \in 1..Len(s) :
                      s[i] = "," /\ \A j \in 1..(i - 1) : s[j] # ","
         IN  <<SubSeq(s, 1, k - 1)>> \o Fields(SubSeq(s, k + 1, Len(s)))
    ELSE <<s>>

FileLines(file) == IF file = Absent THEN <<>> ELSE Lines(file)

\* ------------------------------------------------------------- state
VARIABLES
    status,         \* "up": a tracker exists; "panicked": the process died
    current_id,     \* TimeTracer.current_id
    tasks_map,      \* TimeTracer.tasks_map: id -> Task
    running_tasks,  \* TimeTracer.running_tasks
    save_file,      \* content of the file at save_file_path, or Absent
    cache_file,     \* content of the file at cache_file_path, or Absent
    now,            \* what SystemTime::now() reads
    last,           \* the last call made and what it returned
    \* history of the run
    boots,          \* restarts so far
    cache_at_boot,  \* what the constructor of this tracker found in the cache
    calls,          \* new_task calls on this tracker
    issued_here,    \* ids new_task returned on this tracker
    issued,         \* ids new_task returned on this or an earlier tracker
    removed_here,   \* delete_save_files removed a file on this tracker
    start_read,     \* id -> clock reading of its last successful start_task
    ended_log,      \* <<id, name>> of the end_task calls that returned a
                    \* duration since the save file was last removed
    write_failed    \* a save-file write failed since it was last removed

mem == <<current_id, tasks_map, running_tasks>>
files == <<save_file, cache_file>>
hist == <<boots, cache_at_boot, calls, issued_here, issued, removed_here,
          start_read, ended_log, write_failed>>
vars == <<status, current_id, tasks_map, running_tasks, save_file, cache_file,
          now, last, boots, cache_at_boot, calls, issued_here, issued,
          removed_here, start_read, ended_log, write_failed>>

Call(op, id, ok, val) == [op |-> op, id |-> id, ok |-> ok, val |-> val]

\* Vec::contains
Contains(v, x) == \E i \in 1..Len(v) : v[i] = x

\* Vec::retain(|&x| x != id)
RECURSIVE RetainFrom(_, _)
RetainFrom(v, id) == IF v = <<>> THEN <<>>
                     ELSE IF Head(v) # id THEN <<Head(v)>> \o RetainFrom(Tail(v), id)
                     ELSE RetainFrom(Tail(v), id)

RetainAll(v, id) == v

RetainNone(v, id) == <<>>

Retain(v, id) == RetainFrom(v, id)

\* HashMap::insert
InsertAlone(m, k, v) == [x \in {k} |-> v]

Insert(m, k, v) == [x \in DOMAIN m \cup {k} |-> IF x = k THEN v ELSE m[x]]

\* the value new_with_file_path reads from the cache file; -1: parse fails
CachedId(file) == IF file = Absent THEN 0 ELSE ParseU32(Trim(file))

get_task_number == Cardinality(DOMAIN tasks_map)

\* ------------------------------------------------------------- actions
Init ==
    /\ cache_file \in {Absent} \cup {DecStr(k) \o <<NL>> : k \in StartIds}
    /\ save_file = Absent
    /\ status = "up"
    /\ current_id = CachedId(cache_file)
    /\ tasks_map = <<>>
    /\ running_tasks = <<>>
    /\ now = 0
    /\ last = Call("new", 0, TRUE, 0)
    /\ boots = 0
    /\ cache_at_boot = cache_file
    /\ calls = 0
    /\ issued_here = {}
    /\ issued = {}
    /\ removed_here = FALSE
    /\ start_read = <<>>
    /\ ended_log = <<>>
    /\ write_failed = FALSE

\* the process ends and a new one constructs a tracker on the same files
new_with_file_path ==
    /\ boots' = boots + 1
    /\ tasks_map' = <<>>
    /\ running_tasks' = <<>>
    /\ cache_at_boot' = cache_file
    /\ calls' = 0
    /\ issued_here' = {}
    /\ removed_here' = FALSE
    /\ start_read' = <<>>
    /\ IF CachedId(cache_file) = -1
       THEN /\ status' = "panicked"
            /\ current_id' = 0
            /\ last' = Call("new", 0, FALSE, 0)
       ELSE /\ status' = "up"
            /\ current_id' = CachedId(cache_file)
            /\ last' = Call("new", 0, TRUE, 0)
    /\ UNCHANGED <<save_file, cache_file, now, issued, ended_log, write_failed>>

\* !std::path::Path::new(&self.save_file_path).exists()
SaveFileMissingNever(file) == FALSE

SaveFileMissing(file) == file = Absent

\* delete_save_files that removes the cache file as well
delete_both_files(remove_ok) ==
    /\ status = "up"
    /\ cache_file' = Absent
    /\ IF save_file = Absent
       THEN /\ last' = Call("delete_save_files", 0, TRUE, 0)
            /\ UNCHANGED <<current_id, save_file, removed_here, ended_log, write_failed>>
       ELSE IF ~remove_ok
       THEN /\ last' = Call("delete_save_files", 0, FALSE, 0)
            /\ UNCHANGED <<current_id, save_file, removed_here, ended_log, write_failed>>
       ELSE /\ save_file' = Absent
            /\ current_id' = 0
            /\ removed_here' = TRUE
            /\ ended_log' = <<>>
            /\ write_failed' = FALSE
            /\ last' = Call("delete_save_files", 0, TRUE, 0)
    /\ UNCHANGED <<status, tasks_map, running_tasks, now, boots,
                   cache_at_boot, calls, issued_here, issued, start_read>>

\* remove_ok: whether std::fs::remove_file succeeds
delete_save_files(remove_ok) ==
    /\ status = "up"
    /\ IF SaveFileMissing(save_file)
       THEN /\ last' = Call("delete_save_files", 0, TRUE, 0)
            /\ UNCHANGED <<current_id, save_file, removed_here, ended_log, write_failed>>
       ELSE IF ~remove_ok
       THEN /\ last' = Call("delete_save_files", 0, FALSE, 0)
            /\ UNCHANGED <<current_id, save_file, removed_here, ended_log, write_failed>>
       ELSE /\ save_file' = Absent
            /\ current_id' = 0
            /\ removed_here' = TRUE
            /\ ended_log' = <<>>
            /\ write_failed' = FALSE
            /\ last' = Call("delete_save_files", 0, TRUE, 0)
    /\ UNCHANGED <<status, tasks_map, running_tasks, cache_file, now, boots,
                   cache_at_boot, calls, issued_here, issued, start_read>>

\* self.current_id += 1
NextIdSkips(id) == id + 2

NextId(id) == id + 1

save_cache_to_file(id_to_save, file) == OverwriteFile(file, DecStr(id_to_save) \o <<NL>>)

\* cache_ok: whether save_cache_to_file succeeds
new_task(name, cache_ok) ==
    /\ status = "up"
    /\ LET id == current_id
           task == [id |-> current_id, name |-> name,
                    start_time |-> now, end_time |-> now]
       IN  /\ tasks_map' = Insert(tasks_map, current_id, task)
           /\ current_id' = NextId(current_id)
           /\ calls' = calls + 1
           /\ IF cache_ok
              THEN /\ cache_file' = save_cache_to_file(current_id', cache_file)
                   /\ status' = status
                   /\ last' = Call("new_task", id, TRUE, id)
                   /\ issued_here' = issued_here \cup {id}
                   /\ issued' = issued \cup {id}
              ELSE /\ cache_file' = cache_file
                   /\ status' = "panicked"
                   /\ last' = Call("new_task", id, FALSE, 0)
                   /\ UNCHANGED <<issued_here, issued>>
    /\ UNCHANGED <<running_tasks, save_file, now, boots, cache_at_boot,
                   removed_here, start_read, ended_log, write_failed>>

\* if self.running_tasks.contains(&id) { return false; }
AlreadyRunningNever(id) == FALSE

AlreadyRunning(id) == Contains(running_tasks, id)

start_task(id) ==
    /\ status = "up"
    /\ IF AlreadyRunning(id)
       THEN /\ last' = Call("start_task", id, FALSE, 0)
            /\ UNCHANGED <<tasks_map, running_tasks, start_read>>
       ELSE IF id \notin DOMAIN tasks_map
       THEN /\ last' = Call("start_task", id, FALSE, 0)
            /\ UNCHANGED <<tasks_map, running_tasks, start_read>>
       ELSE /\ tasks_map' = [tasks_map EXCEPT ![id].start_time = now]
            /\ running_tasks' = Append(running_tasks, id)
            /\ start_read' = Insert(start_read, id, now)
            /\ last' = Call("start_task", id, TRUE, 0)
    /\ UNCHANGED <<status, current_id, save_file, cache_file, now, boots,
                   cache_at_boot, calls, issued_here, issued, removed_here,
                   ended_log, write_failed>>

save_task_to_file(task, file) == AppendToFile(file, RecordLine(task))

\* if !self.running_tasks.contains(&id) { return None; }
NotRunningNever(id) == FALSE

NotRunning(id) == ~Contains(running_tasks, id)

\* task.end_time = SystemTime::now()
EndedKeepsTime(task, t) == task

Ended(task, t) == [task EXCEPT !.end_time = t]

\* what end_task returns once the duration is computed: Some(duration),
\* whether or not the write failed
EndResultDropsOnError(duration, write_ok) ==
    [ok |-> write_ok, val |-> IF write_ok THEN duration ELSE 0]

EndResult(duration, write_ok) == [ok |-> TRUE, val |-> duration]

\* write_ok: whether save_task_to_file succeeds
end_task(id, write_ok) ==
    /\ status = "up"
    /\ IF NotRunning(id)
       THEN /\ last' = Call("end_task", id, FALSE, 0)
            /\ UNCHANGED <<status, tasks_map, running_tasks, save_file,
                           ended_log, write_failed>>
       ELSE IF id \notin DOMAIN tasks_map
       THEN /\ last' = Call("end_task", id, FALSE, 0)
            /\ UNCHANGED <<status, tasks_map, running_tasks, save_file,
                           ended_log, write_failed>>
       ELSE /\ tasks_map' = [tasks_map EXCEPT ![id] = Ended(tasks_map[id], now)]
            /\ running_tasks' = Retain(running_tasks, id)
            /\ IF now < tasks_map[id].start_time
               THEN \* expect("Time went backwards")
                    /\ status' = "panicked"
                    /\ last' = Call("end_task", id, FALSE, 0)
                    /\ UNCHANGED <<save_file, ended_log, write_failed>>
               ELSE /\ status' = status
                    /\ last' = Call("end_task", id,
                          EndResult(now - tasks_map[id].start_time, write_ok).ok,
                          EndResult(now - tasks_map[id].start_time, write_ok).val)
                    /\ ended_log' = Append(ended_log, <<id, tasks_map[id].name>>)
                    /\ IF write_ok
                       THEN /\ save_file' = save_task_to_file(tasks_map'[id], save_file)
                            /\ write_failed' = write_failed
                       ELSE /\ save_file' = save_file
                            /\ write_failed' = TRUE
    /\ UNCHANGED <<current_id, cache_file, now, boots, cache_at_boot, calls,
                   issued_here, issued, removed_here, start_read>>

\* the wall clock moves; SystemTime is not monotonic
Tick ==
    /\ \E t \in Times : t # now /\ now' = t
    /\ UNCHANGED <<status, mem, files, last, hist>>

\* the wall clock of a machine whose clock is never set back
TickForward == Tick /\ now' > now

\* the ids a caller passes: every id of the registry and one unknown id
IdArgs == DOMAIN tasks_map \cup {UnknownId}

\* end_task(id, _) will append a record
WillEnd(id) == Contains(running_tasks, id) /\ id \in DOMAIN tasks_map

\* ids, files and restarts
Next ==
    \/ boots < MaxBoots /\ new_with_file_path
    \/ delete_save_files(TRUE)
    \/ calls < MaxCalls /\ new_task(<<"a">>, TRUE)
    \/ \E id \in IdArgs : start_task(id)
    \/ \E id \in IdArgs :
           (WillEnd(id) => Len(ended_log) < MaxLines) /\ end_task(id, TRUE)

Spec == Init /\ [][Next]_vars

\* one process lifetime, every call with every outcome of its file operation
InitRun == Init /\ cache_file = Absent

NextRun ==
    \/ \E ok \in BOOLEAN : delete_save_files(ok)
    \/ \E name \in Names, ok \in BOOLEAN : calls < RunCalls /\ new_task(name, ok)
    \/ \E id \in IdArgs : start_task(id)
    \/ \E id \in IdArgs, ok \in BOOLEAN :
           (WillEnd(id) => Len(ended_log) < RunLines) /\ end_task(id, ok)

SpecRun == InitRun /\ [][NextRun]_vars

\* one process lifetime under a clock that moves
NextClock ==
    \/ delete_save_files(TRUE)
    \/ calls < ClockCalls /\ new_task(<<"a">>, TRUE)
    \/ \E id \in IdArgs : start_task(id)
    \/ \E id \in IdArgs :
           (WillEnd(id) => Len(ended_log) < ClockLines) /\ end_task(id, TRUE)
    \/ Tick

SpecClock == InitRun /\ [][NextClock]_vars

\* one process lifetime under a clock that never moves backwards, the
\* save-file write failing or not
NextMono ==
    \/ delete_save_files(TRUE)
    \/ calls < MonoCalls /\ new_task(<<"a">>, TRUE)
    \/ \E id \in IdArgs : start_task(id)
    \/ \E id \in IdArgs, ok \in BOOLEAN :
           (WillEnd(id) => Len(ended_log) < MonoLines) /\ end_task(id, ok)
    \/ TickForward

SpecMono == InitRun /\ [][NextMono]_vars

\* ------------------------------------------------------------- claims
\* id is in the running list
InRunning(id) == \E i \in DOMAIN running_tasks : running_tasks[i] = id

\* id is in the running list after the step
InRunningNext(id) == \E i \in DOMAIN running_tasks' : running_tasks'[i] = id

\* the step is a new_task call that returned
NewTaskReturned == calls' = calls + 1 /\ last'.ok

\* C1: within one process lifetime no two new_task calls return the same id.
C1_NoReuseInLifetime == [][NewTaskReturned => last'.val \notin issued_here]_vars

\* C2: across restarts on the same pair of files no new_task call returns an
\* id that a call on a previous tracker returned (an id returned before on
\* the same tracker is the case of C1).
C2_NoReuseAcrossRestarts ==
    [][NewTaskReturned => last'.val \notin (issued \ issued_here)]_vars

\* C3 as stated: start_task(id) returns true at most once per lifetime.
C3_StartsOnce ==
    [][(last'.op = "start_task" /\ last'.ok /\ running_tasks' # running_tasks)
          => last'.id \notin DOMAIN start_read]_vars

\* C3 amended: within one process lifetime an id is either running or not;
\* start_task(id) returns true only from not running and makes it running,
\* end_task(id) returns a duration only from running and makes it not
\* running, and no other call that returns moves an id into or out of the
\* running list; an id that was ended can be started again, so
\* Created -> Running -> Ended -> Running -> ... .
C3_Alternation ==
    [][(boots' = boots /\ status' = "up") =>
          /\ (last'.op = "start_task" /\ last'.ok /\ last' # last)
                => ~InRunning(last'.id) /\ InRunningNext(last'.id)
          /\ (last'.op = "end_task" /\ last'.ok /\ last' # last)
                => InRunning(last'.id) /\ ~InRunningNext(last'.id)
          /\ \A id \in DOMAIN tasks_map \cup DOMAIN tasks_map' :
                InRunning(id) # InRunningNext(id)
                   => /\ last'.id = id /\ last'.ok
                      /\ last'.op \in {"start_task", "end_task"}
      ]_vars

\* a start_task that returned true for an id that was ended before
C3_Witness ==
    /\ last.op = "start_task" /\ last.ok
    /\ \E i \in DOMAIN ended_log : ended_log[i][1] = last.id

\* C4: get_task_number() equals the number of new_task calls made on the
\* tracker so far.
C4_CountsCalls == status = "up" => get_task_number = calls

\* C5: as long as delete_save_files has removed no file on this tracker, the
\* k-th new_task call returns the value found in the cache file at
\* construction (0 if there was no file) plus k - 1, and the next id is the
\* returned id plus one.
C5_Consecutive ==
    (last.op = "new_task" /\ last.ok) =>
        /\ current_id = last.val + 1
        /\ ~removed_here =>
              last.val = (IF cache_at_boot = Absent THEN 0
                          ELSE ParseU32(Trim(cache_at_boot))) + calls - 1

\* the second new_task of a tracker that found an id in its cache file
C5_Witness ==
    /\ last.op = "new_task" /\ last.ok /\ calls = 2
    /\ cache_at_boot # Absent /\ ~removed_here /\ last.val > 1

\* C6: start_task(id) returns true exactly when id is in the registry and not
\* running, and then appends id to the running list; when it returns false
\* the registry, the running list, current_id and both files are unchanged;
\* a second start_task(id) right after a successful one returns false.
C6_StartTask ==
    [][(last'.op = "start_task" /\ now' = now) =>
          /\ last'.ok <=> (last'.id \in DOMAIN tasks_map /\ ~InRunning(last'.id))
          /\ last'.ok => running_tasks' = Append(running_tasks, last'.id)
          /\ ~last'.ok => UNCHANGED <<tasks_map, running_tasks, current_id,
                                      save_file, cache_file>>
          /\ (last.op = "start_task" /\ last.ok /\ last.id = last'.id) => ~last'.ok
      ]_vars

\* a start_task rejected because the id was running
C6_Witness ==
    /\ last.op = "start_task" /\ ~last.ok
    /\ InRunning(last.id) /\ last.id \in DOMAIN tasks_map

\* C7: end_task(id) returns no result whenever id is not running, and then
\* changes neither the tasks, the running list nor a file; a second
\* end_task(id) right after a successful one returns no result and appends
\* no line.
C7_EndTaskNotRunning ==
    [][(last'.op = "end_task" /\ now' = now) =>
          /\ ~InRunning(last'.id) =>
                /\ ~last'.ok
                /\ UNCHANGED <<tasks_map, running_tasks, current_id,
                               save_file, cache_file>>
          /\ (last.op = "end_task" /\ last.ok /\ last.id = last'.id) =>
                ~last'.ok /\ save_file' = save_file
      ]_vars

\* an end_task without result on a task that was ended before
C7_Witness ==
    /\ last.op = "end_task" /\ ~last.ok /\ status = "up"
    /\ last.id \in DOMAIN tasks_map /\ ~InRunning(last.id)
    /\ \E i \in DOMAIN ended_log : ended_log[i][1] = last.id

\* C8: when no write failed since the save file was last removed (or first
\* created), the file holds one line per end_task call that returned a
\* duration since then, in call order, each with the id and the name of the
\* task ended; the file exists exactly when there was such a call.
C8_SaveFileLines ==
    ~write_failed =>
        /\ (save_file = Absent) <=> (ended_log = <<>>)
        /\ Len(FileLines(save_file)) = Len(ended_log)
        /\ \A i \in DOMAIN ended_log :
              /\ Len(Fields(FileLines(save_file)[i])) = 4
              /\ Fields(FileLines(save_file)[i])[1] = DecStr(ended_log[i][1])
              /\ Fields(FileLines(save_file)[i])[2] = ended_log[i][2]

\* two tasks of different names were ended, the file holds both
C8_Witness ==
    /\ ~write_failed /\ Len(ended_log) = 2 /\ save_file # Absent
    /\ ended_log[1][1] # ended_log[2][1]
    /\ ended_log[1][2] # ended_log[2][2]

\* C9: after every new_task call the cache file holds exactly the decimal
\* text of the returned id plus one, and one newline.
C9_CacheExact ==
    (last.op = "new_task" /\ last.ok) => cache_file = DecStr(last.val + 1) \o <<NL>>

\* C10: the duration end_task(id) returns is its own clock reading minus the
\* reading of the most recent start_task(id) that returned true.
C10_Duration ==
    [][(last'.op = "end_task" /\ last'.ok /\ ended_log' # ended_log)
          => last'.val = now - start_read[last'.id]]_vars


\* the step is a delete_save_files call
DeleteStep == last'.op = "delete_save_files" /\ now' = now

C12_DeleteResetsId ==
    (last.op = "delete_save_files" /\ last.ok) => current_id = 0

\* C13: end_task on a running id returns the duration, removes the id from
\* the running list and sets end_time, whether the write to the save file
\* fails (the file is left as it was) or succeeds.
C13_WriteFailure ==
    [][(last'.op = "end_task" /\ now' = now /\ InRunning(last'.id)
          /\ last'.id \in DOMAIN tasks_map) =>
          /\ status' = "up"
          /\ last'.ok
          /\ last'.val = now - tasks_map[last'.id].start_time
          /\ ~InRunningNext(last'.id)
          /\ tasks_map'[last'.id].end_time = now
          /\ tasks_map'[last'.id].start_time = tasks_map[last'.id].start_time
          /\ (write_failed' /\ ~write_failed) => save_file' = save_file
      ]_vars

\* an end_task that returned a duration above 0 although its write failed
C13_Witness ==
    /\ last.op = "end_task" /\ last.ok /\ last.val > 0
    /\ write_failed /\ save_file = Absent /\ Len(ended_log) = 1

\* C14: a task stays in the registry under its id with the name it was
\* created with, whatever call follows and returns.
C14_NameKept ==
    [][(boots' = boots /\ status' = "up") =>
          \A id \in DOMAIN tasks_map :
              /\ id \in DOMAIN tasks_map'
              /\ tasks_map'[id].name = tasks_map[id].name]_vars

\* C15: start_task(id) on a registry id that is not running returns true
\* whatever other ids are running and keeps them running; end_task on a
\* running id leaves every other running id in the list.
C15_SeveralRunning ==
    [][/\ (last'.op = "start_task" /\ now' = now
             /\ last'.id \in DOMAIN tasks_map /\ ~InRunning(last'.id)) =>
             /\ last'.ok
             /\ \A i \in DOMAIN running_tasks : InRunningNext(running_tasks[i])
       /\ (last'.op = "end_task" /\ ended_log' # ended_log) =>
             \A i \in DOMAIN running_tasks :
                 running_tasks[i] # last'.id => InRunningNext(running_tasks[i])
      ]_vars

\* a start_task that returned true while another id was running
C15_Witness ==
    /\ last.op = "start_task" /\ last.ok
    /\ Len(running_tasks) = 2 /\ running_tasks[1] # running_tasks[2]

\* C16: the running list holds no id twice.
C16_NoDuplicates ==
    \A i, j \in DOMAIN running_tasks :
        i # j => running_tasks[i] # running_tasks[j]

\* a start_task rejected for a running id while two ids are running
C16_Witness ==
    /\ Len(running_tasks) = 2
    /\ last.op = "start_task" /\ ~last.ok /\ InRunning(last.id)

\* end_task returned a duration for the task now stored under id
WasEnded(id) == \E i \in DOMAIN ended_log : ended_log[i][1] = id

\* C17 as stated: once end_task has returned a duration for a task, its
\* end_time >= start_time in every later state (clock never moving back).
C17_OrderedForEver ==
    [][\A id \in DOMAIN tasks_map :
          (WasEnded(id) /\ ~InRunning(id)
             /\ tasks_map[id].end_time >= tasks_map[id].start_time)
          => tasks_map'[id].end_time >= tasks_map'[id].start_time]_vars

\* C17 amended: under a clock that never moves backwards every task that is
\* not running has end_time >= start_time: from the end_task that returned
\* its duration until start_task(id) returns true again.
C17_OrderedWhileNotRunning ==
    \A id \in DOMAIN tasks_map :
        ~InRunning(id) => tasks_map[id].end_time >= tasks_map[id].start_time

\* a task that was ended, started again after the clock moved, and ended again
C17_Witness ==
    /\ last.op = "end_task" /\ last.ok /\ ~InRunning(last.id)
    /\ Len(ended_log) = 2 /\ ended_log[1][1] = last.id /\ ended_log[2][1] = last.id
    /\ tasks_map[last.id].start_time > 0

\* C18: delete_save_files leaves the cache file, the registry and the running
\* list as they were, whether it removed a file or not.
C18_DeleteFrame ==
    [][DeleteStep => UNCHANGED <<cache_file, tasks_map, running_tasks>>]_vars

\* a delete_save_files that removed the file under a running task
C18_Witness ==
    /\ last.op = "delete_save_files" /\ last.ok /\ removed_here
    /\ save_file = Absent /\ cache_file # Absent /\ running_tasks # <<>>

\* C19: after a new_task call the cache file parses, and to the tracker's
\* current_id.
C19_CacheRoundTrip ==
    (last.op = "new_task" /\ last.ok) => CachedId(cache_file) = current_id

\* C20: every id of the running list is a key of the registry, and end_task
\* on a running id returns a duration.
C20_RunningInRegistry ==
    [][/\ \A i \in DOMAIN running_tasks' : running_tasks'[i] \in DOMAIN tasks_map'
       /\ (last'.op = "end_task" /\ now' = now /\ status' = "up"
             /\ InRunning(last'.id)) => last'.ok
      ]_vars

\* an end_task that returned a duration after delete_save_files reset the ids
C20_Witness ==
    /\ last.op = "end_task" /\ last.ok /\ removed_here
    /\ Cardinality(DOMAIN tasks_map) = 2

TypeOK ==
    /\ status \in {"up", "panicked"}
    /\ current_id \in Nat
    /\ calls \in Nat
    /\ now \in Times

====
